---------------------------- MODULE Spec2Model ----------------------------
(***************************************************************************)
(* Model of the riklet function runtime (FunctionRuntimeManager and        *)
(* FunctionRuntime in riklet/src/runtime/function_runtime.rs) and of the   *)
(* controller's workload routes.                                           *)
(*                                                                         *)
(* create_runtime is a synchronous function and is one action.  up() and   *)
(* down() are async functions: each await of a network or machine call is  *)
(* one action, so the states between two awaits are visible to the other   *)
(* instances.  The effects of FunctionRuntimeNetwork (new, init, preboot,  *)
(* destroy) and of the firepilot Machine (create, start, kill) on the host *)
(* are modelled from their documented contract; which of them is called,   *)
(* in which order and what happens to their errors is taken from the code. *)
(*                                                                         *)
(* Spec is the agent with its instances' lifecycle; SpecCache is the       *)
(* runtime manager under every definition and every way a download ends;   *)
(* SpecFetch is create_fs called from two tasks at once, one file system   *)
(* call per step; SpecShared is the scheduling of workloads that share a   *)
(* rootfs url; SpecCancel is up() with cancellation at its awaits.         *)
(*                                                                         *)
(* SpecController is the controller's workload routes (create and delete   *)
(* in controller/src/api/external/routes/workload.rs) over its repository  *)
(* and internal channel; the repository is modelled from its contract.     *)
(***************************************************************************)
EXTENDS Integers, Sequences, FiniteSets, TLC

\* Number of /30 subnets in the agent's pool.
PoolSize == 2

Subnets == 1..PoolSize

\* The instance ids the scheduler hands out (InstanceScheduling.instance_id).
InstIds == {"inst-1", "inst-2"}

\* Workload names and rootfs urls used in definitions.
Names == {"hello", "fn"}
Urls == {"u1", "u2"}
NoUrl == "nourl"
NoFile == "nofile"
Partial == "partial"

\* How a download ends: the registry answers 200 and the file is written,
\* the registry answers another code, the transfer fails, File::create
\* fails, or write_all fails after the file was created.
Outcomes == {"ok", "404", "500", "transport", "create_fail", "write_fail"}

\* A scheduling message's definition: unparsable, or a parsed definition
\* with a name and an optional function spec carrying the rootfs url.
BadDef == [parse |-> FALSE, name |-> "hello", url |-> NoUrl]
Defs == {BadDef} \cup [parse : {TRUE}, name : Names, url : Urls \cup {NoUrl}]

\* A name with a slash in it, and the definitions that carry it.
SlashName == "team/fn"
HasSlash(name) == name = SlashName
SlashDefs == [parse : {TRUE}, name : {SlashName}, url : Urls]

\* A parse of workload definitions that takes any name.
NameAcceptedAny(name) == TRUE

\* Whether the parse of a workload definition accepts its name: a name with
\* a slash in it is rejected.
NameAccepted(name) == ~HasSlash(name)

\* serde_json::from_str of a scheduling message's definition.
ParseDefinition(def) == def.parse /\ NameAccepted(def.name)

VARIABLES
    fs,        \* cache root: per workload name, the directory and rootfs.ext4
    returned,  \* the (name, url, path) triples create_fs has returned so far
    crRet,     \* what the last create_runtime call was given and did
    rt,        \* the FunctionRuntime objects, by instance id
    subnetOf,  \* subnet leased to an instance (0: none)
    taps,      \* instances whose tap device exists
    tapIp,     \* instances whose tap carries its host ip
    rules,     \* instances whose firewall rules are installed
    vm,        \* VM socket/process of an instance: none, created, running
    pc,        \* the await each instance's up()/down() call is at
    preUp,     \* the instance's host resources when up() was last called
    ret,       \* the last completed up()/down() call on each instance
    prevRet,   \* the completed call before that one
    failedAt,  \* the step whose error ended that last call, if one did
    cpc,       \* where each concurrent caller of create_fs is in its call
    cres,      \* what each concurrent caller's last create_fs call returned
    store,     \* the controller's repository: the stored elements
    nextId,    \* the id the repository gives to the next inserted element
    chan,      \* the messages sent on the controller's internal channel
    req,       \* the last request a controller route handled
    resp,      \* the handler's result for it
    routed,    \* the last request the server routed, and its answer
    tpc,       \* where each server thread is in workloads.create
    tw         \* the workload a server thread is creating

vars == <<fs, returned, crRet, rt, subnetOf, taps, tapIp, rules, vm, pc,
          preUp, ret, prevRet, failedAt, cpc, cres, store, nextId, chan, req,
          resp, routed, tpc, tw>>
hostVars == <<subnetOf, taps, tapIp, rules, vm>>
callVars == <<pc, preUp, ret, prevRet, failedAt>>
retVars == <<ret, prevRet, failedAt>>
fsVars == <<fs, returned, crRet>>
fetchVars == <<cpc, cres>>
ctlVars == <<store, nextId, chan, req, resp, routed, tpc, tw>>
srvVars == <<routed, tpc, tw>>
rikletVars == <<fsVars, rt, hostVars, callVars, fetchVars>>

-----------------------------------------------------------------------------
(* The rootfs cache *)

\* format!("/tmp/{}/rootfs.ext4", name)
FilePath(name) == <<"/tmp", name, "rootfs.ext4">>
NoPath == <<>>

\* The body the registry serves for a url.
Body(url) == IF url = "u1" THEN "body1" ELSE "body2"

Absent == [dir |-> FALSE, file |-> NoFile]

\* download_image that writes what it received before it looks at the
\* response code.
DownloadImageWriteFirst(url, entry, out) ==
    CASE out = "transport" -> [res |-> "FetchingError", entry |-> entry]
      [] out \in {"404", "500"} ->
            [res |-> "Error", entry |-> [entry EXCEPT !.file = Partial]]
      [] out = "create_fail" -> [res |-> "IoError", entry |-> entry]
      [] out = "write_fail" ->
            [res |-> "IoError", entry |-> [entry EXCEPT !.file = Partial]]
      [] OTHER -> [res |-> "Ok", entry |-> [entry EXCEPT !.file = Body(url)]]

\* download_image with the download directory present: the body is buffered,
\* the response code checked, and only then the file created and written.
DownloadImage(url, entry, out) ==
    CASE out = "transport" -> [res |-> "FetchingError", entry |-> entry]
      [] out \in {"404", "500"} -> [res |-> "Error", entry |-> entry]
      [] out = "create_fail" -> [res |-> "IoError", entry |-> entry]
      [] out = "write_fail" ->
            [res |-> "IoError", entry |-> [entry EXCEPT !.file = Partial]]
      [] OTHER -> [res |-> "Ok", entry |-> [entry EXCEPT !.file = Body(url)]]

\* A create_fs call that did not reach the download.
NoFetch(f, res, path) ==
    [res |-> res, path |-> path, fs |-> f, fetched |-> FALSE,
     createdDir |-> FALSE, out |-> "none", dlFile |-> NoFile]

\* create_fs without the removal of the download directory on a failed fetch.
CreateFsNoCleanup(def, f, out) ==
    LET name == def.name
    IN  IF def.url = NoUrl THEN NoFetch(f, "Error", NoPath)
        ELSE IF f[name].file # NoFile THEN NoFetch(f, "Ok", FilePath(name))
        ELSE IF f[name].dir THEN NoFetch(f, "IoError", NoPath)
        ELSE LET d == DownloadImage(def.url, [f[name] EXCEPT !.dir = TRUE], out)
             IN  [res |-> d.res,
                  path |-> IF d.res = "Ok" THEN FilePath(name) ELSE NoPath,
                  fs |-> [f EXCEPT ![name] = d.entry],
                  fetched |-> TRUE, createdDir |-> TRUE, out |-> out,
                  dlFile |-> d.entry.file]

\* create_fs that downloads whether or not the file is already there.
CreateFsAlwaysFetch(def, f, out) ==
    LET name == def.name
    IN  IF def.url = NoUrl THEN NoFetch(f, "Error", NoPath)
        ELSE LET d == DownloadImage(def.url, [f[name] EXCEPT !.dir = TRUE], out)
             IN  [res |-> d.res,
                  path |-> IF d.res = "Ok" THEN FilePath(name) ELSE NoPath,
                  fs |-> [f EXCEPT ![name] =
                            IF d.res = "Ok" THEN d.entry ELSE Absent],
                  fetched |-> TRUE, createdDir |-> ~f[name].dir, out |-> out,
                  dlFile |-> d.entry.file]

\* create_fs that creates the download directory before it looks for the
\* rootfs url of the definition.
CreateFsUrlLast(def, f, out) ==
    LET name == def.name
    IN  IF f[name].file # NoFile /\ def.url # NoUrl
        THEN NoFetch(f, "Ok", FilePath(name))
        ELSE IF f[name].dir THEN NoFetch(f, "IoError", NoPath)
        ELSE IF def.url = NoUrl
             THEN [NoFetch([f EXCEPT ![name].dir = TRUE], "Error", NoPath)
                      EXCEPT !.createdDir = TRUE]
        ELSE LET d == DownloadImage(def.url, [f[name] EXCEPT !.dir = TRUE],
                                    out)
             IN  [res |-> d.res,
                  path |-> IF d.res = "Ok" THEN FilePath(name) ELSE NoPath,
                  fs |-> [f EXCEPT ![name] = IF d.res = "Ok" THEN d.entry
                                             ELSE Absent],
                  fetched |-> TRUE, createdDir |-> TRUE, out |-> out,
                  dlFile |-> d.entry.file]

\* create_fs: the url of the definition, the cache lookup by the existence
\* of /tmp/<name>/rootfs.ext4, create_dir (an error when the directory is
\* there), download_image, and remove_dir_all when the download failed.
CreateFs(def, f, out) ==
    LET name == def.name
    IN  IF def.url = NoUrl THEN NoFetch(f, "Error", NoPath)
        ELSE IF f[name].file # NoFile THEN NoFetch(f, "Ok", FilePath(name))
        ELSE IF f[name].dir THEN NoFetch(f, "IoError", NoPath)
        ELSE LET d == DownloadImage(def.url, [f[name] EXCEPT !.dir = TRUE], out)
             IN  [res |-> d.res,
                  path |-> IF d.res = "Ok" THEN FilePath(name) ELSE NoPath,
                  fs |-> [f EXCEPT ![name] =
                            IF d.res = "Ok" THEN d.entry ELSE Absent],
                  fetched |-> TRUE, createdDir |-> TRUE, out |-> out,
                  dlFile |-> d.entry.file]

-----------------------------------------------------------------------------
(* create_runtime *)

NoRuntime == [exists |-> FALSE, file_path |-> NoPath, net |-> "Uninitialized",
              machine |-> "None"]

\* A create_runtime call that failed to parse the definition.
Unparsed(f) ==
    [res |-> "ParsingError", fs |-> f, fsCalled |-> FALSE,
     c |-> NoFetch(f, "none", NoPath), netNew |-> FALSE, built |-> FALSE]

\* create_runtime that builds the network before it fetches the rootfs.
CreateRuntimeNetworkFirst(def, f, out, netOk) ==
    IF ~ParseDefinition(def) THEN Unparsed(f)
    ELSE IF ~netOk
         THEN [Unparsed(f) EXCEPT !.res = "NetworkError", !.netNew = TRUE]
    ELSE LET c == CreateFs(def, f, out)
         IN  [res |-> c.res, fs |-> c.fs, fsCalled |-> TRUE, c |-> c,
              netNew |-> TRUE, built |-> c.res = "Ok"]

\* create_runtime that fetches the rootfs and builds the network of the
\* message before it reports that the definition did not parse.
CreateRuntimeParseLast(def, f, out, netOk) ==
    LET c == CreateFs(def, f, out)
        met == [res |-> c.res, fs |-> c.fs, fsCalled |-> TRUE, c |-> c,
                netNew |-> FALSE, built |-> FALSE]
    IN  IF ~ParseDefinition(def)
        THEN [met EXCEPT !.res = "ParsingError", !.netNew = TRUE]
        ELSE IF c.res # "Ok" THEN met
        ELSE IF ~netOk
             THEN [met EXCEPT !.res = "NetworkError", !.netNew = TRUE]
        ELSE [met EXCEPT !.netNew = TRUE, !.built = TRUE]

\* create_runtime: parse the definition, then evaluate the fields of the
\* FunctionRuntime in the order written: create_fs(..)? first, then
\* FunctionRuntimeNetwork::new(..)?; each ? returns the error at once.
CreateRuntimeOutcome(def, f, out, netOk) ==
    IF ~ParseDefinition(def) THEN Unparsed(f)
    ELSE LET c == CreateFs(def, f, out)
             met == [res |-> c.res, fs |-> c.fs, fsCalled |-> TRUE, c |-> c,
                     netNew |-> FALSE, built |-> FALSE]
         IN  IF c.res # "Ok" THEN met
             ELSE IF ~netOk
                  THEN [met EXCEPT !.res = "NetworkError", !.netNew = TRUE]
             ELSE [met EXCEPT !.netNew = TRUE, !.built = TRUE]

\* FunctionRuntimeNetwork::new: the network value of a new instance; the
\* subnet and the tap are acquired by init().
NetworkNew == "Allocated"

\* create_runtime for instance id i, on a definition of D, with a download
\* that ends as one of O and a network constructor that succeeds or not.
CreateRuntimeWith(i, D, O, N) ==
    /\ ~rt[i].exists
    /\ \E def \in D, out \in O, netOk \in N :
         LET o == CreateRuntimeOutcome(def, fs, out, netOk)
         IN  /\ fs' = o.fs
             /\ returned' = IF o.fsCalled /\ o.c.res = "Ok"
                            THEN returned \cup {[name |-> def.name,
                                                 url |-> def.url,
                                                 path |-> o.c.path]}
                            ELSE returned
             /\ crRet' = [parse |-> ParseDefinition(def), name |-> def.name,
                          url |-> def.url, res |-> o.res,
                          fsCalled |-> o.fsCalled, fsRes |-> o.c.res,
                          path |-> o.c.path, fetched |-> o.c.fetched,
                          createdDir |-> o.c.createdDir,
                          out |-> o.c.out, dlFile |-> o.c.dlFile,
                          netNew |-> o.netNew, built |-> o.built]
             /\ rt' = IF o.built
                      THEN [rt EXCEPT ![i] = [exists |-> TRUE,
                                              file_path |-> o.c.path,
                                              net |-> NetworkNew,
                                              machine |-> "None"]]
                      ELSE rt
    /\ UNCHANGED <<hostVars, callVars, fetchVars, ctlVars>>

CreateRuntime(i) == CreateRuntimeWith(i, Defs, Outcomes, BOOLEAN)

-----------------------------------------------------------------------------
(* Host resources of an instance *)

NoRes == [subnet |-> 0, tap |-> FALSE, ip |-> FALSE, rules |-> FALSE,
          vm |-> "none"]

Res(i) == [subnet |-> subnetOf[i], tap |-> i \in taps, ip |-> i \in tapIp,
           rules |-> i \in rules, vm |-> vm[i]]

FreeSubnets == Subnets \ {subnetOf[j] : j \in InstIds}

Min(S) == CHOOSE x \in S : \A y \in S : x <= y

\* The addresses of the pool, as offsets from its base: the /30 subnet s
\* holds four of them, the second is the host's and the third the guest's.
PoolAddrs == 0..(4 * PoolSize - 1)
HostIp(s) == 4 * (s - 1) + 1
GuestIp(s) == 4 * (s - 1) + 2

\* No step failed: the call returned Ok(()), or none was made.
NoStep == "none"

\* The step of up() or down() that runs when the call is at await p: init()
\* is the first step of up() and kill() the first awaited step of down().
StepAt(p, o) == IF p = "idle" THEN (IF o = "up" THEN "init" ELSE "kill") ELSE p

\* Call o on instance i returns res from its step `step`: the result is
\* recorded and the instance is free for the next call.
FinishAt(i, o, res, step) ==
    /\ prevRet' = [prevRet EXCEPT ![i] = ret[i]]
    /\ ret' = [ret EXCEPT ![i] = [op |-> o, res |-> res]]
    /\ failedAt' = [failedAt EXCEPT ![i] = step]
    /\ pc' = [pc EXCEPT ![i] = "idle"]

\* Call o on instance i returns res from the step it is at.
Finish(i, o, res) ==
    FinishAt(i, o, res, IF res = "Ok" THEN NoStep ELSE StepAt(pc[i], o))

-----------------------------------------------------------------------------
(* FunctionRuntimeNetwork and firepilot's Machine, from their contract *)

\* Whether init() succeeds: it reserves a subnet and creates the tap of a
\* network that is Allocated; any other network, an exhausted pool or a
\* failing host call (want = FALSE) is an error, and leaves nothing behind.
NetInitOk(i, want) == want /\ rt[i].net = "Allocated" /\ FreeSubnets # {}

NetInit(i, ok) ==
    IF ok
    THEN /\ subnetOf' = [subnetOf EXCEPT ![i] = Min(FreeSubnets)]
         /\ taps' = taps \cup {i}
         /\ rt' = [rt EXCEPT ![i].net = "TapUp"]
    ELSE UNCHANGED <<subnetOf, taps, rt>>

\* preboot(): the host ip is put on the tap and the three rules installed.
NetPreboot(i, ok) ==
    IF ok
    THEN /\ tapIp' = tapIp \cup {i}
         /\ rules' = rules \cup {i}
         /\ rt' = [rt EXCEPT ![i].net = "Wired"]
    ELSE UNCHANGED <<tapIp, rules, rt>>

\* destroy(): the rules are removed, the tap deleted and the subnet
\* returned; a substep that fails is skipped and makes the call an error,
\* the others are still done.
NetDestroy(i, fail) ==
    /\ rules' = IF fail = "rules" THEN rules ELSE rules \ {i}
    /\ taps' = IF fail = "tap" THEN taps ELSE taps \ {i}
    /\ tapIp' = IF fail = "tap" THEN tapIp ELSE tapIp \ {i}
    /\ subnetOf' = IF fail = "subnet" THEN subnetOf
                   ELSE [subnetOf EXCEPT ![i] = 0]
    /\ rt' = [rt EXCEPT ![i].net = "Destroyed"]

DestroyFailures == {"none", "rules", "tap", "subnet"}

\* Machine::create: the VM socket and process exist, the guest is not booted.
MachineCreate(i, ok) == vm' = IF ok THEN [vm EXCEPT ![i] = "created"] ELSE vm

\* Machine::start: the guest boots.
MachineStart(i, ok) == vm' = IF ok THEN [vm EXCEPT ![i] = "running"] ELSE vm

\* Machine::kill: the VM process is terminated and its socket removed.
MachineKill(i, ok) == vm' = IF ok THEN [vm EXCEPT ![i] = "none"] ELSE vm

-----------------------------------------------------------------------------
(* up() *)

\* up() that starts the machine right after machine.create.
NextPcSkipPreboot(step) ==
    CASE step = "init" -> "create"
      [] step = "create" -> "start"
      [] step = "preboot" -> "start"
      [] OTHER -> "idle"

\* The await that follows a successful step of up().
NextPc(step) ==
    CASE step = "init" -> "create"
      [] step = "create" -> "preboot"
      [] step = "preboot" -> "start"
      [] OTHER -> "idle"

\* up() that takes the first subnet of the pool for its tap without asking
\* the allocator which subnets are leased.
UpInitFirstSubnet(i) ==
    /\ rt[i].exists /\ pc[i] = "idle"
    /\ preUp' = [preUp EXCEPT ![i] = Res(i)]
    /\ \E want \in BOOLEAN :
         LET ok == want /\ rt[i].net = "Allocated"
         IN  /\ IF ok
                THEN /\ subnetOf' = [subnetOf EXCEPT ![i] = Min(Subnets)]
                     /\ taps' = taps \cup {i}
                     /\ rt' = [rt EXCEPT ![i].net = "TapUp"]
                ELSE UNCHANGED <<subnetOf, taps, rt>>
             /\ IF ok
                THEN /\ pc' = [pc EXCEPT ![i] = NextPc("init")]
                     /\ UNCHANGED retVars
                ELSE Finish(i, "up", "NetworkError")
    /\ UNCHANGED <<fsVars, fetchVars, ctlVars, tapIp, rules, vm>>

\* up() whose network.init() sets the network up again whatever state it
\* is in.
UpInitAnyState(i) ==
    /\ rt[i].exists /\ pc[i] = "idle"
    /\ preUp' = [preUp EXCEPT ![i] = Res(i)]
    /\ \E want \in BOOLEAN :
         LET ok == want /\ (subnetOf[i] # 0 \/ FreeSubnets # {})
         IN  /\ IF ok
                THEN /\ subnetOf' = IF subnetOf[i] # 0 THEN subnetOf
                                    ELSE [subnetOf EXCEPT
                                            ![i] = Min(FreeSubnets)]
                     /\ taps' = taps \cup {i}
                     /\ rt' = [rt EXCEPT ![i].net = "TapUp"]
                ELSE UNCHANGED <<subnetOf, taps, rt>>
             /\ IF ok
                THEN /\ pc' = [pc EXCEPT ![i] = NextPc("init")]
                     /\ UNCHANGED retVars
                ELSE Finish(i, "up", "NetworkError")
    /\ UNCHANGED <<fsVars, fetchVars, ctlVars, tapIp, rules, vm>>

\* up() is called: network.init().await, whose error is returned at once
\* as NetworkError.
UpInit(i) ==
    /\ rt[i].exists /\ pc[i] = "idle"
    /\ preUp' = [preUp EXCEPT ![i] = Res(i)]
    /\ \E want \in BOOLEAN :
         LET ok == NetInitOk(i, want)
         IN  /\ NetInit(i, ok)
             /\ IF ok
                THEN /\ pc' = [pc EXCEPT ![i] = NextPc("init")]
                     /\ UNCHANGED retVars
                ELSE Finish(i, "up", "NetworkError")
    /\ UNCHANGED <<fsVars, fetchVars, ctlVars, tapIp, rules, vm>>

\* generate_microvm_config()?, Machine::new(), machine.create(..).await?.
\* The machine is a local of up(): on an error it is dropped and nothing
\* that up() has acquired is released.
\* What generate_microvm_config() and machine.create() can do: a builder of
\* the configuration fails, the tap name cannot be read, the VM cannot be
\* created, or all succeed.
CreateOutcomes == {"ok", "config", "tap_name", "create"}

\* The error a failing step of the configuration and creation is mapped to.
UpCreateErrorAllFirecracker(out) == "FirecrackerError"

UpCreateError(out) ==
    CASE out = "config" -> "FirepilotConfiguration"
      [] out = "tap_name" -> "NetworkError"
      [] out = "create" -> "FirecrackerError"

UpCreate(i) ==
    /\ pc[i] = "create"
    /\ \E out \in CreateOutcomes :
         /\ MachineCreate(i, out = "ok")
         /\ IF out = "ok"
            THEN /\ pc' = [pc EXCEPT ![i] = NextPc("create")]
                 /\ UNCHANGED retVars
            ELSE FinishAt(i, "up", UpCreateError(out), out)
    /\ UNCHANGED <<fsVars, fetchVars, ctlVars, rt, subnetOf,
                   taps, tapIp, rules, preUp>>

\* network.preboot().await?
UpPreboot(i) ==
    /\ pc[i] = "preboot"
    /\ \E ok \in BOOLEAN :
         /\ NetPreboot(i, ok)
         /\ IF ok
            THEN /\ pc' = [pc EXCEPT ![i] = NextPc("preboot")]
                 /\ UNCHANGED retVars
            ELSE Finish(i, "up", "NetworkError")
    /\ UNCHANGED <<fsVars, fetchVars, ctlVars, subnetOf, taps, vm, preUp>>

\* machine.start().await?; self.machine = Some(machine); Ok(())
UpStart(i) ==
    /\ pc[i] = "start"
    /\ \E ok \in BOOLEAN :
         /\ MachineStart(i, ok)
         /\ rt' = IF ok THEN [rt EXCEPT ![i].machine = "Some"] ELSE rt
         /\ Finish(i, "up", IF ok THEN "Ok" ELSE "FirecrackerError")
    /\ UNCHANGED <<fsVars, fetchVars, ctlVars, subnetOf,
                   taps, tapIp, rules, preUp>>

\* The caller drops the future of up() while it is suspended at the await
\* of machine.create, network.preboot or machine.start.  The locals of
\* up() are dropped, the Machine among them, which may or may not take the
\* VM process with it; self.network is a field of the runtime and stays as
\* it is.  up() has no guard that runs on the drop.
UpCancel(i) ==
    /\ pc[i] \in {"create", "preboot", "start"}
    /\ \E stops \in BOOLEAN : MachineKill(i, stops /\ vm[i] # "none")
    /\ Finish(i, "up", "Cancelled")
    /\ UNCHANGED <<fsVars, fetchVars, ctlVars, rt, subnetOf,
                   taps, tapIp, rules, preUp>>

-----------------------------------------------------------------------------
(* down() *)

\* down() that goes on to kill without looking at the machine handle.
DownKillNoCheck(i) ==
    /\ rt[i].exists /\ pc[i] = "idle"
    /\ \E ok \in BOOLEAN :
         /\ MachineKill(i, ok)
         /\ IF ok
            THEN /\ pc' = [pc EXCEPT ![i] = "destroy"]
                 /\ UNCHANGED retVars
            ELSE Finish(i, "down", "FirecrackerError")
    /\ UNCHANGED <<fsVars, fetchVars, ctlVars, rt, subnetOf,
                   taps, tapIp, rules, preUp>>

\* down() that returns Ok once the machine is killed.
DownKillNoDestroy(i) ==
    /\ rt[i].exists /\ pc[i] = "idle"
    /\ IF rt[i].machine = "None"
       THEN /\ FinishAt(i, "down", "NotRunning", "machine")
            /\ UNCHANGED vm
       ELSE \E ok \in BOOLEAN :
            /\ MachineKill(i, ok)
            /\ Finish(i, "down", IF ok THEN "Ok" ELSE "FirecrackerError")
    /\ UNCHANGED <<fsVars, fetchVars, ctlVars, rt, subnetOf,
                   taps, tapIp, rules, preUp>>

\* down() is called: without a machine handle it returns NotRunning; else
\* machine.kill().await?, whose error is returned at once.  The handle is
\* borrowed (as_mut) and stays in self.machine.
DownKill(i) ==
    /\ rt[i].exists /\ pc[i] = "idle"
    /\ IF rt[i].machine = "None"
       THEN /\ FinishAt(i, "down", "NotRunning", "machine")
            /\ UNCHANGED vm
       ELSE \E ok \in BOOLEAN :
            /\ MachineKill(i, ok)
            /\ IF ok
               THEN /\ pc' = [pc EXCEPT ![i] = "destroy"]
                    /\ UNCHANGED retVars
               ELSE Finish(i, "down", "FirecrackerError")
    /\ UNCHANGED <<fsVars, fetchVars, ctlVars, rt, subnetOf,
                   taps, tapIp, rules, preUp>>

\* down() that removes the download directory of the instance's rootfs
\* along with its network.
DownDestroyRemoveRootfs(i) ==
    /\ pc[i] = "destroy"
    /\ \E fail \in DestroyFailures :
         /\ NetDestroy(i, fail)
         /\ Finish(i, "down", IF fail = "none" THEN "Ok" ELSE "NetworkError")
    /\ fs' = [n \in DOMAIN fs |->
                IF FilePath(n) = rt[i].file_path THEN Absent ELSE fs[n]]
    /\ UNCHANGED <<returned, crRet, fetchVars, ctlVars, vm, preUp>>

\* network.destroy().await, whose result is the result of down().
DownDestroy(i) ==
    /\ pc[i] = "destroy"
    /\ \E fail \in DestroyFailures :
         /\ NetDestroy(i, fail)
         /\ Finish(i, "down", IF fail = "none" THEN "Ok" ELSE "NetworkError")
    /\ UNCHANGED <<fsVars, fetchVars, ctlVars, vm, preUp>>

-----------------------------------------------------------------------------
(* create_fs called from several tasks at once *)

\* The tasks that call create_fs on the one FunctionRuntimeManager; it has
\* no state and no lock, so nothing orders the file system steps of two
\* calls.
Callers == {"task-1", "task-2"}

\* The definition the concurrent calls are made for.
SameDef == [parse |-> TRUE, name |-> "hello", url |-> "u1"]

NoResult == [res |-> "none", hit |-> FALSE, seen |-> NoFile]

\* The call of task t returns res.
CfReturn(t, res) ==
    /\ cres' = [cres EXCEPT ![t] = [res |-> res, hit |-> FALSE,
                                     seen |-> NoFile]]
    /\ cpc' = [cpc EXCEPT ![t] = "idle"]

\* The call of task t goes to step with the error err to return.
CfFail(t, err) ==
    /\ cres' = [cres EXCEPT ![t] = [res |-> err, hit |-> FALSE,
                                     seen |-> NoFile]]
    /\ cpc' = [cpc EXCEPT ![t] = "cleanup"]

\* create_fs is called: file_pathbuf.exists().  When the file is there the
\* call returns its path at once, whatever is in the file.
CfExists(t) ==
    /\ cpc[t] = "idle"
    /\ IF fs[SameDef.name].file # NoFile
       THEN /\ cres' = [cres EXCEPT ![t] = [res |-> "Ok", hit |-> TRUE,
                                            seen |-> fs[SameDef.name].file]]
            /\ UNCHANGED cpc
       ELSE /\ cres' = [cres EXCEPT ![t] = NoResult]
            /\ cpc' = [cpc EXCEPT ![t] = "create_dir"]
    /\ UNCHANGED <<fs, returned, crRet, rt, hostVars, callVars, ctlVars>>

\* fs::create_dir(&download_directory)?: an error when the directory is
\* there, returned at once.
CfCreateDir(t) ==
    /\ cpc[t] = "create_dir"
    /\ IF fs[SameDef.name].dir
       THEN CfReturn(t, "IoError") /\ UNCHANGED fs
       ELSE /\ fs' = [fs EXCEPT ![SameDef.name].dir = TRUE]
            /\ cpc' = [cpc EXCEPT ![t] = "transfer"]
            /\ UNCHANGED cres
    /\ UNCHANGED <<returned, crRet, rt, hostVars, callVars, ctlVars>>

\* download_image up to the response code: the transfer into the buffer.
CfTransfer(t) ==
    /\ cpc[t] = "transfer"
    /\ \E out \in {"ok", "404", "500", "transport"} :
         IF out = "ok"
         THEN cpc' = [cpc EXCEPT ![t] = "file_create"] /\ UNCHANGED cres
         ELSE CfFail(t, IF out = "transport" THEN "FetchingError" ELSE "Error")
    /\ UNCHANGED <<fs, returned, crRet, rt, hostVars, callVars, ctlVars>>

\* File::create(file_path): the file exists from here on, empty.
CfFileCreate(t) ==
    /\ cpc[t] = "file_create"
    /\ \E ok \in BOOLEAN :
         IF ok /\ fs[SameDef.name].dir
         THEN /\ fs' = [fs EXCEPT ![SameDef.name].file = Partial]
              /\ cpc' = [cpc EXCEPT ![t] = "write_all"]
              /\ UNCHANGED cres
         ELSE CfFail(t, "IoError") /\ UNCHANGED fs
    /\ UNCHANGED <<returned, crRet, rt, hostVars, callVars, ctlVars>>

\* file.write_all(buffer): the file is complete when it succeeds, and
\* create_fs returns the path; a failure leaves what was written.
CfWriteAll(t) ==
    /\ cpc[t] = "write_all"
    /\ \E ok \in BOOLEAN :
         IF ok
         THEN /\ fs' = [fs EXCEPT ![SameDef.name].file =
                           IF @ = NoFile THEN @ ELSE Body(SameDef.url)]
              /\ CfReturn(t, "Ok")
         ELSE CfFail(t, "IoError") /\ UNCHANGED fs
    /\ UNCHANGED <<returned, crRet, rt, hostVars, callVars, ctlVars>>

\* The download failed: fs::remove_dir_all(&download_directory), and the
\* error of the download is returned.
CfRemoveDirAll(t) ==
    /\ cpc[t] = "cleanup"
    /\ fs' = [fs EXCEPT ![SameDef.name] = Absent]
    /\ cpc' = [cpc EXCEPT ![t] = "idle"]
    /\ UNCHANGED <<cres, returned, crRet, rt, hostVars, callVars, ctlVars>>

-----------------------------------------------------------------------------
(* The controller's workload routes *)

\* Largest id the repository hands out.
MaxId == 3

Kinds == {"pods", "function"}

\* The bodies of requests: a WorkloadDefinition, an OnlyId, or a body that
\* does not parse as what the route expects.
WorkloadDefs == [kind : Kinds, name : Names]
Ids == 1..MaxId
Malformed == "malformed"

\* format!("/workload/{}/{}/{}", workload.kind, namespace, workload.name)
ElementName(w) == <<"workload", w.kind, "default", w.name>>

\* serde_json::to_string(&workload), and serde_json::from_value(value) of
\* what was stored.
ToJson(w) == <<"json", w.kind, w.name>>
FromJson(v) == [kind |-> v[2], name |-> v[3]]

NoRequest == [op |-> "none", parsed |-> FALSE, w |-> <<>>, id |-> 0]
NoResponse == [status |-> 0, text |-> "", id |-> 0]

\* The repository: check_duplicate_name and find_one are lookups that are
\* Ok when a row is found, insert adds a row under the next id, delete
\* removes the row of an id.
CheckDuplicateName(st, name) == \E e \in st : e.name = name
FindOne(st, id) == {e \in st : e.id = id}
Insert(st, id, name, value) ==
    st \cup {[id |-> id, name |-> name, value |-> value]}
RepositoryDelete(st, id) == {e \in st : e.id # id}

\* What a handler hands back: a response, or the error of the body's parse.
Response(status, text, id) == [status |-> status, text |-> text, id |-> id]
RikError == Response(0, "RikError", 0)

\* create with the test of check_duplicate_name's result the other way
\* round: a name that is not found is reported as used.
CreateInverted(parsed, w, st, id, insertOk) ==
    IF ~parsed THEN [resp |-> RikError, store |-> st, inserted |-> FALSE]
    ELSE IF ~CheckDuplicateName(st, ElementName(w))
         THEN [resp |-> Response(404, "Name already used", 0), store |-> st,
               inserted |-> FALSE]
    ELSE IF insertOk
         THEN [resp |-> Response(200, "id", id),
               store |-> Insert(st, id, ElementName(w), ToJson(w)),
               inserted |-> TRUE]
    ELSE [resp |-> Response(500, "Cannot create workload", 0), store |-> st,
          inserted |-> FALSE]

\* create: parse the body, build the element name, reject a name that
\* check_duplicate_name finds, else insert and answer with the id, or with
\* 500 when the insert failed.
Create(parsed, w, st, id, insertOk) ==
    IF ~parsed THEN [resp |-> RikError, store |-> st, inserted |-> FALSE]
    ELSE IF CheckDuplicateName(st, ElementName(w))
         THEN [resp |-> Response(404, "Name already used", 0), store |-> st,
               inserted |-> FALSE]
    ELSE IF insertOk
         THEN [resp |-> Response(200, "id", id),
               store |-> Insert(st, id, ElementName(w), ToJson(w)),
               inserted |-> TRUE]
    ELSE [resp |-> Response(500, "Cannot create workload", 0), store |-> st,
          inserted |-> FALSE]

\* POST workloads.create with a body of W: a body that is not JSON of a
\* definition, or whose name the parse rejects, does not parse.
WorkloadCreateOf(W) ==
    /\ nextId <= MaxId
    /\ \E wellFormed \in BOOLEAN, w \in W, insertOk \in BOOLEAN :
         LET parsed == wellFormed /\ NameAccepted(w.name)
             o == Create(parsed, w, store, nextId, insertOk)
         IN  /\ store' = o.store
             /\ nextId' = IF o.inserted THEN nextId + 1 ELSE nextId
             /\ req' = [op |-> "create", parsed |-> parsed,
                        w |-> IF parsed THEN ToJson(w) ELSE <<>>, id |-> 0]
             /\ resp' = o.resp
    /\ UNCHANGED <<chan, srvVars, rikletVars>>

\* POST workloads.create
WorkloadCreate == WorkloadCreateOf(WorkloadDefs)

\* The message delete sends on the internal channel.
DeleteMessage(id, definition) ==
    [action |-> "Delete", workload_id |-> id,
     workload_definition |-> definition, instance_id |-> "None"]

\* delete that removes the workload without telling the internal channel.
DeleteSilently(parsed, id, st) ==
    IF ~parsed THEN [resp |-> RikError, store |-> st, sent |-> <<>>]
    ELSE IF FindOne(st, id) # {}
         THEN [resp |-> Response(204, "", 0),
               store |-> RepositoryDelete(st, id), sent |-> <<>>]
    ELSE [resp |-> Response(404, "Workload id not found", id), store |-> st,
          sent |-> <<>>]

\* delete: parse the body as OnlyId, find the workload of that id, send the
\* Delete message with its stored definition, delete it and answer 204; or
\* answer 404 when it is not found.
Delete(parsed, id, st) ==
    IF ~parsed THEN [resp |-> RikError, store |-> st, sent |-> <<>>]
    ELSE IF FindOne(st, id) # {}
         THEN LET workload == CHOOSE e \in FindOne(st, id) : TRUE
              IN  [resp |-> Response(204, "", 0),
                   store |-> RepositoryDelete(st, workload.id),
                   sent |-> <<DeleteMessage(id, FromJson(workload.value))>>]
    ELSE [resp |-> Response(404, "Workload id not found", id), store |-> st,
          sent |-> <<>>]

\* POST workloads.delete
WorkloadDelete ==
    \E parsed \in BOOLEAN, id \in Ids :
        LET o == Delete(parsed, id, store)
        IN  /\ store' = o.store
            /\ chan' = chan \o o.sent
            /\ req' = [op |-> "delete", parsed |-> parsed, w |-> <<>>,
                       id |-> IF parsed THEN id ELSE 0]
            /\ resp' = o.resp
            /\ UNCHANGED <<nextId, srvVars, rikletVars>>

-----------------------------------------------------------------------------
(* Router and the server's threads *)

\* The requests the server receives: a method and a url.  A url is kept as
\* its base path, resource and verb: format!("{}/workloads.list", base_path).
Methods == {"GET", "POST", "PUT"}
BasePath == "/api/v0"
Resources == {"instances", "tenants", "workloads"}
Path(base, resource, verb) == <<base, resource, verb>>
RequestUrls ==
    {Path(BasePath, r, v) : r \in Resources, v \in {"list", "create", "delete"}}
        \cup {Path(BasePath, "workloads", "update"),
              Path("/api/v1", "workloads", "list")}

\* Router::new: the routes of GET and of POST, each a url and its handler;
\* a handler is named by its module and function, workload::create.
GetRoutes ==
    {<<Path(BasePath, "instances", "list"), <<"instance", "get">>>>,
     <<Path(BasePath, "tenants", "list"), <<"tenant", "get">>>>,
     <<Path(BasePath, "workloads", "list"), <<"workload", "get">>>>}
PostRoutes ==
    {<<Path(BasePath, "instances", "create"), <<"instance", "create">>>>,
     <<Path(BasePath, "tenants", "create"), <<"tenant", "create">>>>,
     <<Path(BasePath, "workloads", "create"), <<"workload", "create">>>>,
     <<Path(BasePath, "instances", "delete"), <<"instance", "delete">>>>,
     <<Path(BasePath, "tenants", "delete"), <<"tenant", "delete">>>>,
     <<Path(BasePath, "workloads", "delete"), <<"workload", "delete">>>>}
RouterNew ==
    <<[method |-> "GET", routes |-> GetRoutes],
      [method |-> "POST", routes |-> PostRoutes]>>

\* routes.recognize(url): the handler of the route of that url, if any.
NoHandler == <<>>
Recognize(routes, url) ==
    IF \E r \in routes : r[1] = url
    THEN (CHOOSE r \in routes : r[1] = url)[2]
    ELSE NoHandler

\* A router that looks the url up in the routes of every method.
RouterHandlerAnyMethod(method, url) ==
    Recognize(GetRoutes \cup PostRoutes, url)

\* The handler Router::handle calls: the first entry of routes with the
\* request's method, and in it the route that recognizes the url.
RouterHandler(method, url) ==
    LET found == {k \in 1..Len(RouterNew) : RouterNew[k].method = method}
    IN  IF found = {} THEN NoHandler
        ELSE Recognize(RouterNew[Min(found)].routes, url)

\* The number of workloads created through the router; the inserts of
\* later requests fail.
MaxRouted == 1

\* What the handlers return and do.  workload::create and workload::delete
\* are the handlers above; workload::get answers 200 or 500 and never fails;
\* a handler of instances or tenants returns some value of its type, a
\* response or a RikError, and is taken to leave the workloads alone.
HandlerResults(h) ==
    CASE h = <<"workload", "create">> ->
           {[resp |-> o.resp, store |-> o.store, sent |-> <<>>,
             nextId |-> IF o.inserted THEN nextId + 1 ELSE nextId,
             req |-> [op |-> "create", parsed |-> b[1],
                      w |-> IF b[1] THEN ToJson(b[2]) ELSE <<>>, id |-> 0]] :
                <<b, o>> \in
                    {<<c, Create(c[1], c[2], store, nextId, c[3])>> :
                        c \in BOOLEAN \X WorkloadDefs \X
                              (IF nextId <= MaxRouted THEN BOOLEAN
                               ELSE {FALSE})}}
      [] h = <<"workload", "delete">> ->
           {[resp |-> o.resp, store |-> o.store, sent |-> o.sent,
             nextId |-> nextId,
             req |-> [op |-> "delete", parsed |-> b[1], w |-> <<>>,
                      id |-> IF b[1] THEN b[2] ELSE 0]] :
                <<b, o>> \in {<<c, Delete(c[1], c[2], store)>> :
                    c \in BOOLEAN \X Ids}}
      [] h = <<"workload", "get">> ->
           {[resp |-> r, store |-> store, sent |-> <<>>, nextId |-> nextId,
             req |-> [NoRequest EXCEPT !.op = h]] :
                r \in {Response(200, "workloads", 0),
                       Response(500, "Cannot find workloads", 0)}}
      [] OTHER ->
           {[resp |-> r, store |-> store, sent |-> <<>>, nextId |-> nextId,
             req |-> [NoRequest EXCEPT !.op = h]] :
                r \in {Response(200, "", 0), RikError}}

\* A message on the logger's channel.
Log(message, type) == [message |-> message, log_type |-> type]

\* unwrap_or_else of the handler's result that passes the error on as it is.
AnswerRawError(result) == [response |-> result, logs |-> <<>>]

\* unwrap_or_else of the handler's result: a response is passed on; an error
\* is logged as an Error and becomes a 400 response with the error's text.
Answer(result) ==
    IF result = RikError
    THEN [response |-> Response(400, RikError.text, 0),
          logs |-> <<Log(RikError.text, "Error")>>]
    ELSE [response |-> result, logs |-> <<>>]

NoRouted ==
    [method |-> "none", url |-> <<>>, handler |-> NoHandler, some |-> FALSE,
     response |-> NoResponse, logs |-> <<>>, served |-> NoResponse]

\* One turn of a server thread's loop: receive a request, let the router
\* handle it and respond with its response, or log "Route not found" and
\* respond with an empty 404 when the router returns None.
Handle ==
    /\ \E method \in Methods, url \in RequestUrls :
         LET h == RouterHandler(method, url)
         IN  IF h = NoHandler
             THEN /\ routed' = [method |-> method, url |-> url,
                                handler |-> NoHandler, some |-> FALSE,
                                response |-> NoResponse,
                                logs |-> <<Log("Route not found", "Log")>>,
                                served |-> Response(404, "", 0)]
                  /\ UNCHANGED <<store, nextId, chan, req, resp>>
             ELSE \E o \in HandlerResults(h) :
                    LET a == Answer(o.resp)
                    IN  /\ store' = o.store
                        /\ nextId' = o.nextId
                        /\ chan' = chan \o o.sent
                        /\ req' = o.req
                        /\ resp' = o.resp
                        /\ routed' = [method |-> method, url |-> url,
                                      handler |-> h, some |-> TRUE,
                                      response |-> a.response,
                                      logs |-> a.logs,
                                      served |-> a.response]
    /\ UNCHANGED <<tpc, tw, rikletVars>>

\* The server's threads that handle a workloads.create each, on their own
\* connection to the one database.
Threads == {"thread-1", "thread-2"}
NoWorkload == <<>>

\* create up to the check of the name: a body that does not parse and a name
\* that check_duplicate_name finds end the request; else the thread goes on
\* to the insert.
CreateCheck(t) ==
    /\ tpc[t] = "recv"
    /\ \E parsed \in BOOLEAN, w \in WorkloadDefs :
         /\ req' = [op |-> "create", parsed |-> parsed,
                    w |-> IF parsed THEN ToJson(w) ELSE <<>>, id |-> 0]
         /\ IF ~parsed
            THEN resp' = RikError /\ UNCHANGED <<tpc, tw>>
            ELSE IF CheckDuplicateName(store, ElementName(w))
                 THEN /\ resp' = Response(404, "Name already used", 0)
                      /\ UNCHANGED <<tpc, tw>>
            ELSE /\ tpc' = [tpc EXCEPT ![t] = "checked"]
                 /\ tw' = [tw EXCEPT ![t] = w]
                 /\ UNCHANGED resp
    /\ UNCHANGED <<store, nextId, chan, routed, rikletVars>>

\* create from the insert on: the workload is inserted under the element
\* name built before the check and the id is answered, or 500 when the
\* insert fails.
CreateInsert(t) ==
    /\ tpc[t] = "checked"
    /\ \E insertOk \in (IF nextId <= MaxId THEN BOOLEAN ELSE {FALSE}) :
         IF insertOk
         THEN /\ store' = Insert(store, nextId, ElementName(tw[t]),
                                 ToJson(tw[t]))
              /\ nextId' = nextId + 1
              /\ resp' = Response(200, "id", nextId)
         ELSE /\ resp' = Response(500, "Cannot create workload", 0)
              /\ UNCHANGED <<store, nextId>>
    /\ tpc' = [tpc EXCEPT ![t] = "recv"]
    /\ tw' = [tw EXCEPT ![t] = NoWorkload]
    /\ UNCHANGED <<chan, req, routed, rikletVars>>

-----------------------------------------------------------------------------
(* The agent *)

NoRet == [op |-> "none", res |-> "none"]

NoCall == [parse |-> FALSE, name |-> "hello", url |-> NoUrl, res |-> "none",
           fsCalled |-> FALSE, fsRes |-> "none", path |-> NoPath,
           fetched |-> FALSE, createdDir |-> FALSE, out |-> "none",
           dlFile |-> NoFile, netNew |-> FALSE, built |-> FALSE]

\* The agent has started with the instance ids I to be scheduled: no
\* instance exists, nothing is leased, and the cache root holds what f says.
InitFor(I, f) ==
    /\ fs = f
    /\ returned = {}
    /\ crRet = NoCall
    /\ rt = [i \in I |-> NoRuntime]
    /\ subnetOf = [i \in I |-> 0]
    /\ taps = {}
    /\ tapIp = {}
    /\ rules = {}
    /\ vm = [i \in I |-> "none"]
    /\ pc = [i \in I |-> "idle"]
    /\ preUp = [i \in I |-> NoRes]
    /\ ret = [i \in I |-> NoRet]
    /\ prevRet = [i \in I |-> NoRet]
    /\ failedAt = [i \in I |-> NoStep]
    /\ cpc = [t \in Callers |-> "idle"]
    /\ cres = [t \in Callers |-> NoResult]
    /\ store = {}
    /\ nextId = 1
    /\ chan = <<>>
    /\ req = NoRequest
    /\ resp = NoResponse
    /\ routed = NoRouted
    /\ tpc = [t \in Threads |-> "recv"]
    /\ tw = [t \in Threads |-> NoWorkload]

InitWith(f) == InitFor(InstIds, f)

\* The instances' lifecycle: the scheduler sends well-formed definitions of
\* one workload and the registry is healthy.
LifeDefs == {[parse |-> TRUE, name |-> "hello", url |-> "u1"]}

Init == InitWith([n \in Names |-> Absent])

Next ==
    \E i \in InstIds :
        \/ CreateRuntimeWith(i, LifeDefs, {"ok"}, {TRUE})
        \/ UpInit(i)
        \/ UpCreate(i)
        \/ UpPreboot(i)
        \/ UpStart(i)
        \/ DownKill(i)
        \/ DownDestroy(i)

Spec == Init /\ [][Next]_vars

\* The runtime manager alone: every definition, every way a download ends.
\* /tmp is shared with the host: a download directory may be there already,
\* without a rootfs in it.
InitCache == \E f \in [Names -> [dir : BOOLEAN, file : {NoFile}]] : InitWith(f)

NextCache == \E i \in InstIds : CreateRuntime(i)

SpecCache == InitCache /\ [][NextCache]_vars

\* Two tasks that call create_fs for the same workload again and again.
NextFetch ==
    \E t \in Callers :
        \/ CfExists(t)
        \/ CfCreateDir(t)
        \/ CfTransfer(t)
        \/ CfFileCreate(t)
        \/ CfWriteAll(t)
        \/ CfRemoveDirAll(t)

SpecFetch == Init /\ [][NextFetch]_vars

\* The instances are brought up, and an up() in progress may be cancelled.
NextCancel ==
    \E i \in InstIds :
        \/ CreateRuntimeWith(i, LifeDefs, {"ok"}, {TRUE})
        \/ UpInit(i)
        \/ UpCreate(i)
        \/ UpPreboot(i)
        \/ UpStart(i)
        \/ UpCancel(i)

SpecCancel == Init /\ [][NextCancel]_vars

\* The controller handles create and delete requests, one at a time.
NextController == WorkloadCreate \/ WorkloadDelete

SpecController == Init /\ [][NextController]_vars

\* The server routes the requests it receives, one at a time.
NextRouter == Handle

SpecRouter == Init /\ [][NextRouter]_vars

\* Definitions whose name has a slash in it reach the agent, among others,
\* and the controller's workloads.create.
SlashWorkloads == [kind : Kinds, name : {SlashName}]

InitParse == InitWith([n \in Names \cup {SlashName} |-> Absent])

NextParse ==
    \/ \E i \in InstIds :
          CreateRuntimeWith(i, Defs \cup SlashDefs, Outcomes, BOOLEAN)
    \/ WorkloadCreateOf(SlashWorkloads)

SpecParse == InitParse /\ [][NextParse]_vars

\* Two server threads handle workloads.create requests at the same time.
NextThreads == \E t \in Threads : CreateCheck(t) \/ CreateInsert(t)

SpecThreads == Init /\ [][NextThreads]_vars

\* Instances of the workloads fn-1, fn-2, fn-3, which share one rootfs url,
\* are scheduled on the agent; the registry is healthy.
SharedIds == {"inst-1", "inst-2", "inst-3"}
SharedNames == {"fn-1", "fn-2", "fn-3"}
SharedUrl == "u1"
SharedDefs == [parse : {TRUE}, name : SharedNames, url : {SharedUrl}]

InitShared == InitFor(SharedIds, [n \in SharedNames |-> Absent])

NextShared ==
    \E i \in SharedIds : CreateRuntimeWith(i, SharedDefs, {"ok"}, {TRUE})

SpecShared == InitShared /\ [][NextShared]_vars

-----------------------------------------------------------------------------
(* Properties *)

UpOk == [op |-> "up", res |-> "Ok"]
DownOk == [op |-> "down", res |-> "Ok"]
DownNotRunning == [op |-> "down", res |-> "NotRunning"]

\* The last completed call on i was a failed up().
UpFailed(r) == r.op = "up" /\ r.res # "Ok"

\* This step is a call of down() on instance i: it goes on to destroy, or
\* it returns at once.
DownCalled(i) ==
    /\ pc[i] = "idle"
    /\ \/ pc'[i] = "destroy"
       \/ /\ ret'[i].op = "down"
          /\ <<ret'[i], prevRet'[i]>> # <<ret[i], prevRet[i]>>

\* This step is a create_runtime call that reached create_fs.
CreateFsCalled == crRet' # crRet /\ crRet'.fsCalled

\* C1: when up() has returned an error, the host resources of the instance
\* (subnet, tap, tap ip, rules, VM) are what they were when up() was called.
C1_FailedUpRestoresHost ==
    \A i \in InstIds :
        (pc[i] = "idle" /\ UpFailed(ret[i])) => Res(i) = preUp[i]

\* C2: within up(), machine.create is reached only from a successful
\* network.init (the tap exists), network.preboot only from a successful
\* machine.create, machine.start only from a successful network.preboot
\* (ip on the tap, rules installed); the VM is created, wired and started
\* only by those steps, and it never runs without its rules installed.
C2_UpStepOrder ==
    [][\A i \in InstIds :
        /\ (pc'[i] = "create" /\ pc[i] # "create")
              => (pc[i] = "idle" /\ i \in taps')
        /\ (vm'[i] = "created" /\ vm[i] # "created")
              => (pc[i] = "create" /\ i \in taps)
        /\ (pc'[i] = "preboot" /\ pc[i] # "preboot")
              => (pc[i] = "create" /\ vm'[i] = "created")
        /\ (i \in rules' /\ i \notin rules)
              => (pc[i] = "preboot" /\ vm[i] = "created" /\ i \in tapIp')
        /\ (pc'[i] = "start" /\ pc[i] # "start")
              => (pc[i] = "preboot" /\ i \in rules')
        /\ (vm'[i] = "running" /\ vm[i] # "running")
              => (pc[i] = "start" /\ vm[i] = "created" /\ i \in rules
                  /\ i \in tapIp)
        /\ vm'[i] = "running" => i \in rules'
      ]_vars

C2_Witness ==
    \E i \in InstIds :
        /\ ret[i] = UpOk /\ pc[i] = "idle"
        /\ vm[i] = "running" /\ i \in rules /\ i \in tapIp /\ i \in taps

\* C3: when a successful up() is followed by a successful down(), the
\* instance's tap, tap ip, rules, subnet and VM are what they were before
\* up(): nothing of the instance is left on the host.
C3_UpDownLeavesNothing ==
    \A i \in InstIds :
        (pc[i] = "idle" /\ ret[i] = DownOk /\ prevRet[i] = UpOk)
            => (Res(i) = preUp[i] /\ Res(i) = NoRes)

C3_Witness ==
    \E i \in InstIds :
        /\ pc[i] = "idle" /\ ret[i] = DownOk /\ prevRet[i] = UpOk
        /\ rt[i].net = "Destroyed" /\ subnetOf[i] = 0 /\ i \notin taps

\* C4: between calls, the machine handle is Some exactly when the VM of the
\* instance is running, and then the network is Wired.
C4_HandleIffRunning ==
    \A i \in InstIds :
        pc[i] = "idle" =>
            /\ (rt[i].machine = "Some") <=> (vm[i] = "running")
            /\ (rt[i].machine = "Some") => (rt[i].net = "Wired")

\* C5: down() on an instance without a machine handle returns NotRunning at
\* once: neither kill nor destroy is called, and the instance, the host and
\* the cache are unchanged.
C5_DownWithoutMachine ==
    [][\A i \in InstIds :
        (DownCalled(i) /\ rt[i].machine = "None")
            => /\ pc'[i] = "idle"
               /\ ret'[i] = DownNotRunning
               /\ UNCHANGED <<fs, returned, crRet, rt, hostVars, preUp>>
      ]_vars

C5_Witness ==
    \E i \in InstIds :
        /\ rt[i].exists /\ rt[i].machine = "None" /\ rt[i].net = "Allocated"
        /\ pc[i] = "idle" /\ ret[i] = DownNotRunning /\ prevRet[i] = NoRet
        /\ Res(i) = NoRes

\* C6: down() on an instance with a machine handle always goes on to
\* network.destroy(), whether machine.kill() succeeds or fails.
C6_DestroyWhateverKill ==
    [][\A i \in InstIds :
        (DownCalled(i) /\ rt[i].machine = "Some") => pc'[i] = "destroy"
      ]_vars

\* C7: when down() has returned after a failed up(), nothing of the
\* instance is left on the host.
C7_DownCleansFailedUp ==
    \A i \in InstIds :
        (pc[i] = "idle" /\ ret[i].op = "down" /\ UpFailed(prevRet[i]))
            => Res(i) = NoRes

\* C8: a create_runtime call whose rootfs download fails returns that error
\* without constructing the network or the instance; no runtime and no host
\* resource is changed.
C8_FetchFailureNoNetwork ==
    [][(CreateFsCalled /\ crRet'.fetched /\ crRet'.fsRes # "Ok")
          => /\ crRet'.res = crRet'.fsRes
             /\ ~crRet'.netNew /\ ~crRet'.built
             /\ UNCHANGED <<rt, hostVars>>
      ]_vars

C8_Witness ==
    /\ crRet.fetched /\ crRet.fsRes = "Error" /\ crRet.res = "Error"
    /\ ~crRet.netNew
    /\ \A i \in InstIds : ~rt[i].exists /\ Res(i) = NoRes

\* C9: after a create_fs call that created the download directory and whose
\* download failed, neither the directory nor rootfs.ext4 exists.
C9_FailedFetchRemovesDir ==
    (crRet.createdDir /\ crRet.fsRes # "Ok") => fs[crRet.name] = Absent

C9_Witness ==
    /\ crRet.createdDir /\ crRet.fsRes = "IoError"
    /\ fs[crRet.name] = Absent

Accepted(out) == out \in {"ok", "create_fail", "write_fail"}

\* C11: download_image creates and writes the destination only after the
\* whole transfer completed with response code 200: after a transport
\* failure or another response code it has returned an error and the
\* destination does not exist, and the body of the url is in the file
\* exactly when the call returned Ok.
C11_WriteOnlyAfter200 ==
    crRet.fetched =>
        /\ ~Accepted(crRet.out)
              => (crRet.fsRes \in {"FetchingError", "Error"}
                  /\ crRet.dlFile = NoFile)
        /\ crRet.dlFile # NoFile => Accepted(crRet.out)
        /\ (crRet.dlFile = Body(crRet.url)) <=> (crRet.fsRes = "Ok")

C11_Witness ==
    /\ crRet.fetched /\ crRet.out = "404" /\ crRet.fsRes = "Error"
    /\ crRet.dlFile = NoFile

\* C12: a caller of create_fs that was given the path as a cache hit was
\* given a completely written file, and that file is still there, as it
\* was, for as long as the caller holds the path.
C12_HitIsCompleteAndStable ==
    \A t \in Callers :
        cres[t].hit => /\ cres[t].seen = Body(SameDef.url)
                       /\ fs[SameDef.name].file = cres[t].seen

\* The workload names under which the body of url has been downloaded and
\* stored; each is the result of one download of its own.
Downloads(url) == {n \in DOMAIN fs : fs[n].file = Body(url)}

\* C13: when instances of the workloads fn-<i> that share one rootfs url
\* are scheduled, the shared rootfs is downloaded at most twice in total.
C13_SharedRootfsAtMostTwice == Cardinality(Downloads(SharedUrl)) <= 2

\* The instances that hold a subnet of the pool.
Leased == {i \in InstIds : subnetOf[i] # 0}

\* C14: the subnets held by instances are subnets of the pool and pairwise
\* distinct, and so are the guest addresses in them: a subnet is leased to
\* at most one instance at a time, however the up() and down() calls of
\* the instances interleave.
C14_SubnetsDistinct ==
    /\ \A i \in Leased :
          /\ subnetOf[i] \in Subnets
          /\ GuestIp(subnetOf[i]) \in PoolAddrs
          /\ HostIp(subnetOf[i]) \in PoolAddrs
    /\ \A i, j \in Leased :
          i # j => /\ subnetOf[i] # subnetOf[j]
                   /\ GuestIp(subnetOf[i]) # GuestIp(subnetOf[j])
                   /\ GuestIp(subnetOf[i]) # HostIp(subnetOf[j])

C14_Witness ==
    /\ Leased = InstIds
    /\ \A i \in InstIds : pc[i] = "create"

\* The error class that carries the response code of the registry.
HttpError(out) == IF out = "404" THEN "Http(404)" ELSE "Http(500)"

\* C15: a create_runtime call whose download was answered with a code other
\* than 200 returns the Http error of that code, which is none of the
\* classes of a transport failure, a file system failure or the catch-all.
C15_Non200IsHttpClass ==
    (crRet.fetched /\ crRet.out \in {"404", "500"})
        => /\ crRet.res = HttpError(crRet.out)
           /\ crRet.res \notin {"FetchingError", "IoError", "Error"}

\* C16: a create_runtime call on a definition that does not parse returns
\* ParsingError and does nothing else: create_fs is not called (no download
\* directory, no fetch), no network is constructed, no instance is built,
\* and the cache, the instances and the host are unchanged.
C16_ParseFailureNoEffect ==
    [][(crRet' # crRet /\ ~crRet'.parse)
          => /\ crRet'.res = "ParsingError"
             /\ ~crRet'.fsCalled /\ ~crRet'.fetched /\ ~crRet'.createdDir
             /\ ~crRet'.netNew /\ ~crRet'.built
             /\ UNCHANGED <<fs, returned, rt, hostVars>>
      ]_vars

C16_Witness ==
    /\ ~crRet.parse /\ crRet.res = "ParsingError" /\ ~crRet.fsCalled
    /\ returned # {}
    /\ \E i \in InstIds : ~rt[i].exists

\* This step is a step of an up() or down() call.
LifecycleStep == <<pc, preUp, ret, prevRet>>' # <<pc, preUp, ret, prevRet>>

\* C17: no step of up() or down(), successful or failed, changes the cache:
\* the rootfs.ext4 an instance was built on is present and complete, and
\* stays as it is through every call on every instance.
C17_LifecycleKeepsCache ==
    [][/\ LifecycleStep => fs' = fs
       /\ \A i \in InstIds, n \in DOMAIN fs :
            (rt[i].exists /\ rt[i].file_path = FilePath(n))
                => (fs[n].file = Body(SameDef.url) /\ fs'[n] = fs[n])
      ]_vars

C17_Witness ==
    \E i \in InstIds, n \in DOMAIN fs :
        /\ pc[i] = "idle" /\ ret[i].op = "down" /\ prevRet[i] = UpOk
        /\ vm[i] = "none"
        /\ rt[i].file_path = FilePath(n) /\ fs[n].file = Body(SameDef.url)

UpCancelled == [op |-> "up", res |-> "Cancelled"]

\* C18: when an up() was cancelled at one of its awaits, the host resources
\* of the instance (subnet, tap, tap ip, rules, VM) are what they were when
\* up() was called: what the call had acquired has been torn down.
C18_CancelledUpRestoresHost ==
    \A i \in InstIds :
        (pc[i] = "idle" /\ ret[i] = UpCancelled) => Res(i) = preUp[i]

\* This step handles a create request whose body is a WorkloadDefinition.
CreateHandled == req'.op = "create" /\ req'.parsed

\* The element create inserts for definition w.
NewElement(w) ==
    [id |-> nextId, name |-> ElementName(w), value |-> ToJson(w)]

Rejected == Response(404, "Name already used", 0)

DeleteHandled == req'.op = "delete" /\ req'.parsed

\* C20: a delete request for the id of a stored workload sends exactly one
\* message on the internal channel, a Delete with that id and the stored
\* definition, removes that workload and no other from the store, and is
\* answered 204; a delete request for an id that is not stored is answered
\* 404, sends nothing and leaves the store as it is.
C20_DeleteNotifiesAndRemoves ==
    [][DeleteHandled =>
        LET found == {e \in store : e.id = req'.id}
        IN  IF found # {}
            THEN /\ \E e \in found :
                      /\ chan' = Append(chan,
                            [action |-> "Delete", workload_id |-> req'.id,
                             workload_definition |-> FromJson(e.value),
                             instance_id |-> "None"])
                      /\ ElementName(FromJson(e.value)) = e.name
                      /\ store' = store \ {e}
                 /\ resp' = Response(204, "", 0)
            ELSE /\ resp'.status = 404
                 /\ UNCHANGED <<chan, store>>
      ]_vars

C20_Witness ==
    /\ req.op = "delete" /\ req.parsed /\ resp.status = 204
    /\ chan # <<>> /\ chan[Len(chan)].workload_id = req.id
    /\ store # {} /\ \A e \in store : e.id # req.id

\* C23: a down() called on an instance whose last call was a successful
\* down() returns NotRunning at once: machine.kill and network.destroy are
\* not called again, and the instance and the host are unchanged.
C23_SecondDownNotRunning ==
    [][\A i \in InstIds :
        (DownCalled(i) /\ ret[i] = DownOk)
            => /\ pc'[i] = "idle"
               /\ ret'[i] = DownNotRunning
               /\ UNCHANGED <<rt, hostVars>>
      ]_vars

\* This step is a call of up() on instance i: it goes on to machine.create,
\* or it returns at once.
UpCalled(i) ==
    /\ pc[i] = "idle"
    /\ \/ pc'[i] = "create"
       \/ /\ ret'[i].op = "up"
          /\ <<ret'[i], prevRet'[i]>> # <<ret[i], prevRet[i]>>

StepClass(step) ==
    CASE step \in {"init", "tap_name", "preboot", "destroy"} -> "NetworkError"
      [] step \in {"create", "start", "kill"} -> "FirecrackerError"
      [] step = "config" -> "FirepilotConfiguration"
      [] OTHER -> "NotRunning"

\* C28: a call of up() or down() that a step failed returned at that step,
\* with the error in the class of that step: the network class for init,
\* preboot, destroy and the reading of the tap name, the Firecracker class
\* for machine create, start and kill, the configuration class for the
\* builders of the VM configuration; no later step changed that result.
C28_ErrorInClassOfStep ==
    \A i \in InstIds :
        failedAt[i] # NoStep
            => /\ ret[i].res = StepClass(failedAt[i])
               /\ ret[i].op = (IF failedAt[i] \in {"machine", "kill", "destroy"}
                               THEN "down" ELSE "up")

C28_Witness ==
    \E i \in InstIds :
        /\ pc[i] = "idle" /\ failedAt[i] = "tap_name"
        /\ ret[i] = [op |-> "up", res |-> "NetworkError"]
        /\ i \in taps /\ vm[i] = "none"


\* C29: create_runtime on a definition that parses but carries no rootfs url
\* fails with an error before any effect: nothing is downloaded, no
\* directory is created, no network is built, no runtime is returned, and
\* the cache and the host are as they were.
C29_NoUrlFailsWithoutEffect ==
    [][(CreateFsCalled /\ crRet'.parse /\ crRet'.url = NoUrl)
           => /\ crRet'.res = "Error"
              /\ ~crRet'.fetched /\ ~crRet'.createdDir
              /\ ~crRet'.netNew /\ ~crRet'.built
              /\ UNCHANGED <<fs, returned, rt, hostVars>>
      ]_vars

C29_Witness ==
    /\ crRet.parse /\ crRet.fsCalled /\ crRet.url = NoUrl
    /\ crRet.res = "Error"
    /\ fs[crRet.name] = Absent
    /\ \A i \in InstIds : ~rt[i].exists


\* C26: the rootfs path that create_fs returns holds the body of the rootfs
\* url of the definition it was called with, also when an earlier definition
\* of the same name had another url.
C26_PathHoldsOwnUrlBody ==
    [][(CreateFsCalled /\ crRet'.fsRes = "Ok")
           => fs'[crRet'.name].file = Body(crRet'.url)
      ]_vars


\* C27: create_fs can be retried: called for a definition with a rootfs url
\* whose download directory was left behind without rootfs.ext4, it still
\* downloads, and with a registry that answers 200 and a file that can be
\* written it returns the path of the downloaded rootfs.
C27_LeftoverDirStillDownloads ==
    [][(/\ CreateFsCalled /\ crRet'.url # NoUrl
        /\ fs[crRet'.name].dir /\ fs[crRet'.name].file = NoFile)
           => /\ crRet'.fetched
              /\ crRet'.out = "ok"
                    => /\ crRet'.fsRes = "Ok"
                       /\ fs'[crRet'.name].file = Body(crRet'.url)
      ]_vars


\* The routes the server is to have: the list of a resource under GET,
\* its create and delete under POST, each served by the function of that
\* verb in the module of that resource.
Registered ==
    {<<"GET", Path(BasePath, r, "list")>> : r \in Resources}
        \cup {<<"POST", Path(BasePath, r, v)>> :
                r \in Resources, v \in {"create", "delete"}}
ModuleOf(resource) ==
    CASE resource = "instances" -> "instance"
      [] resource = "tenants" -> "tenant"
      [] resource = "workloads" -> "workload"
FunctionOf(verb) == IF verb = "list" THEN "get" ELSE verb

C25_NamesStayUnique ==
    \A e1, e2 \in store : e1.name = e2.name => e1 = e2


\* C21: a workload definition whose name has a slash in it is rejected when
\* it is parsed, by workloads.create and by create_runtime: the request and
\* the call end with the parse error, no element name is stored and no
\* cache directory, file or path is made from such a name.
C21_SlashNameRejectedAtParse ==
    /\ \A e \in store : ~HasSlash(e.name[4])
    /\ req.op = "create" => ~req.parsed /\ resp = RikError
    /\ HasSlash(crRet.name)
          => /\ crRet.res = "ParsingError"
             /\ ~crRet.parse /\ ~crRet.fsCalled /\ ~crRet.createdDir
    /\ fs[SlashName] = Absent
    /\ \A r \in returned : ~HasSlash(r.name)
    /\ \A i \in InstIds : rt[i].file_path # FilePath(SlashName)

C21_Witness ==
    /\ HasSlash(crRet.name) /\ crRet.res = "ParsingError"
    /\ req.op = "create" /\ resp = RikError
    /\ \E i \in InstIds : rt[i].exists

=============================================================================
